---- MODULE Spec2Model ----
(***************************************************************************)
(* A model of accessgrid/client.py: the signed request executor            *)
(* (AccessGrid._make_request), the resource clients (AccessCards, Console) *)
(* and the result entities (AccessCard, Template).                         *)
(*                                                                         *)
(* Texts (JSON strings, response bodies, messages) are sequences of        *)
(* lexemes; a lexeme is a pair <<kind, spelling>> of strings:              *)
(*   "p" punctuation, "s" a JSON string literal, "n" a number,             *)
(*   "null" the literal null / Python's None, "w" plain unquoted text.     *)
(* The empty text <<>> is the empty string "".                             *)
(***************************************************************************)
EXTENDS Naturals, Sequences, FiniteSets, TLC

VARIABLES env, client, ctor, sent, last, prev

vars == <<env, client, ctor, sent, last, prev>>

-----------------------------------------------------------------------------
(* Bounds of the model. *)

\* calls made on one client in one behaviour
MaxSent == 2

-----------------------------------------------------------------------------
(* Python values. *)

PyNone == <<"null", "null">>
PyStr(s) == <<"s", s>>

\* bool(x) of a str-or-None argument: None and "" are falsy
Falsy(x) == x = PyNone \/ x = PyStr("")

\* a keyword-argument value: a str, or a namedtuple of strs
ValStr(s) == [t |-> "str", s |-> s, names |-> <<>>, vals |-> <<>>]
ValNamedTuple(names, vals) == [t |-> "namedtuple", s |-> "", names |-> names, vals |-> vals]

\* Optional[Dict]: None, or a dict given as its items in insertion order
NoneDict == [isNone |-> TRUE, items |-> <<>>]
Dict(items) == [isNone |-> FALSE, items |-> items]

\* bool(data) of an Optional[Dict]: None and {} are falsy
Truthy(data) == ~data.isNone /\ Len(data.items) > 0

-----------------------------------------------------------------------------
(* JSON encoding: json.dumps with its default separators (", ", ": "). *)

P(s) == <<"p", s>>

RECURSIVE JoinStrs(_, _)
\* the str elements of a sequence, each a string literal, joined by ", "
JoinStrs(vals, i) ==
    IF i > Len(vals) THEN <<>>
    ELSE (IF i > 1 THEN <<P(", ")>> ELSE <<>>) \o <<PyStr(vals[i])>> \o JoinStrs(vals, i + 1)

RECURSIVE JoinFields(_, _, _)
\* "name": "val" pairs joined by ", "
JoinFields(names, vals, i) ==
    IF i > Len(names) THEN <<>>
    ELSE (IF i > 1 THEN <<P(", ")>> ELSE <<>>)
         \o <<PyStr(names[i]), P(": "), PyStr(vals[i])>> \o JoinFields(names, vals, i + 1)

\* the standard library's encoder: a namedtuple is a tuple, hence an array
StdValue(v) ==
    IF v.t = "str" THEN <<PyStr(v.s)>>
    ELSE <<P("[")>> \o JoinStrs(v.vals, 1) \o <<P("]")>>

\* simplejson's encoder (namedtuple_as_object=True): a namedtuple is an object
SimpleValue(v) ==
    IF v.t = "str" THEN <<PyStr(v.s)>>
    ELSE <<P("{")>> \o JoinFields(v.names, v.vals, 1) \o <<P("}")>>

RECURSIVE StdItems(_, _)
StdItems(items, i) ==
    IF i > Len(items) THEN <<>>
    ELSE (IF i > 1 THEN <<P(", ")>> ELSE <<>>)
         \o <<PyStr(items[i][1]), P(": ")>> \o StdValue(items[i][2]) \o StdItems(items, i + 1)

RECURSIVE SimpleItems(_, _)
SimpleItems(items, i) ==
    IF i > Len(items) THEN <<>>
    ELSE (IF i > 1 THEN <<P(", ")>> ELSE <<>>)
         \o <<PyStr(items[i][1]), P(": ")>> \o SimpleValue(items[i][2]) \o SimpleItems(items, i + 1)

\* json.dumps(data) of a dict
json_dumps(data) == <<P("{")>> \o StdItems(data.items, 1) \o <<P("}")>>

\* requests' own encoding of its json= argument: complexjson.dumps, where
\* complexjson is simplejson when that package is installed, else json
complexjson_dumps(e, data) ==
    IF e.simplejson THEN <<P("{")>> \o SimpleItems(data.items, 1) \o <<P("}")>>
    ELSE json_dumps(data)

-----------------------------------------------------------------------------
(* JSON decoding of a response text: response.json(). *)

Scalar(tok) == tok[1] \in {"s", "n", "null"}
IsPunct(tok, set) == tok[1] = "p" /\ tok[2] \in set
Colon == {":", ": "}
Comma == {",", ", "}

\* parsed values: a dict (items), a list (elems) or a scalar (elems of length 1)
PyObj(t, items, elems) == [t |-> t, items |-> items, elems |-> elems]
EmptyDict == PyObj("dict", <<>>, <<>>)
DecodeError == [ok |-> FALSE, val |-> PyObj("none", <<>>, <<>>)]
Decoded(v) == [ok |-> TRUE, val |-> v]

RECURSIVE ParseMembers(_, _, _)
\* text[i..] is  "key" : scalar ( , "key" : scalar )* }  and ends the text
ParseMembers(text, i, acc) ==
    IF i + 3 > Len(text) THEN DecodeError
    ELSE IF ~(text[i][1] = "s" /\ IsPunct(text[i + 1], Colon) /\ Scalar(text[i + 2])) THEN DecodeError
    ELSE LET acc2 == Append(acc, <<text[i][2], text[i + 2]>>) IN
         IF IsPunct(text[i + 3], {"}"})
         THEN (IF i + 3 = Len(text) THEN Decoded(PyObj("dict", acc2, <<>>)) ELSE DecodeError)
         ELSE IF IsPunct(text[i + 3], Comma) THEN ParseMembers(text, i + 4, acc2)
         ELSE DecodeError

RECURSIVE ParseElements(_, _, _)
\* text[i..] is  scalar ( , scalar )* ]  and ends the text
ParseElements(text, i, acc) ==
    IF i + 1 > Len(text) THEN DecodeError
    ELSE IF ~Scalar(text[i]) THEN DecodeError
    ELSE LET acc2 == Append(acc, text[i]) IN
         IF IsPunct(text[i + 1], {"]"})
         THEN (IF i + 1 = Len(text) THEN Decoded(PyObj("list", <<>>, acc2)) ELSE DecodeError)
         ELSE IF IsPunct(text[i + 1], Comma) THEN ParseElements(text, i + 2, acc2)
         ELSE DecodeError

json_loads(text) ==
    IF Len(text) = 0 THEN DecodeError
    ELSE IF IsPunct(text[1], {"{"}) THEN
        (IF Len(text) = 2 /\ IsPunct(text[2], {"}"}) THEN Decoded(EmptyDict)
         ELSE ParseMembers(text, 2, <<>>))
    ELSE IF IsPunct(text[1], {"["}) THEN
        (IF Len(text) = 2 /\ IsPunct(text[2], {"]"}) THEN Decoded(PyObj("list", <<>>, <<>>))
         ELSE ParseElements(text, 2, <<>>))
    ELSE IF Len(text) = 1 /\ Scalar(text[1]) THEN Decoded(PyObj("scalar", <<>>, text))
    ELSE DecodeError

RECURSIVE GetFrom(_, _, _, _)
\* dict.get(key, default) over parsed items; a repeated key keeps its last value
GetFrom(items, i, key, default) ==
    IF i = 0 THEN default
    ELSE IF items[i][1] = key THEN items[i][2]
    ELSE GetFrom(items, i - 1, key, default)

Get(d, key, default) == GetFrom(d.items, Len(d.items), key, default)
HasKey(d, key) == \E i \in 1..Len(d.items) : d.items[i][1] = key

\* str(x) inside an f-string: a str shows without quotes, None as "None"
Str(tok) ==
    IF tok[1] = "s" THEN <<<<"w", tok[2]>>>>
    ELSE IF tok[1] = "null" THEN <<<<"w", "None">>>>
    ELSE <<tok>>

-----------------------------------------------------------------------------
(* The transport (the requests package) as the client sees it. *)

\* what the installed packages decide: whether requests encodes with simplejson,
\* and whether a body that is not JSON makes response.json() raise
\* requests.exceptions.JSONDecodeError (a RequestException) or a plain ValueError
Envs == [simplejson : BOOLEAN, decode_error_is_request_exception : BOOLEAN]

Version == "unknown"

TransportFailure == [transport_error |-> TRUE, status |-> 0, text |-> <<>>]
HttpResponse(status, text) == [transport_error |-> FALSE, status |-> status, text |-> text]

NotJson == <<<<"w", "Bad Gateway">>>>
CardJson ==
    <<P("{"), PyStr("id"), P(":"), PyStr("c1"), P(","), PyStr("state"), P(":"), PyStr("active"), P("}")>>
MessageJson == <<P("{"), PyStr("message"), P(":"), PyStr("denied"), P("}")>>
ListJson == <<P("["), P("]")>>

\* what the server or the transport may answer
Responses ==
    { TransportFailure,
      HttpResponse(200, CardJson), HttpResponse(200, ListJson), HttpResponse(204, <<>>),
      HttpResponse(300, <<>>), HttpResponse(401, NotJson), HttpResponse(402, MessageJson),
      HttpResponse(500, NotJson), HttpResponse(500, MessageJson), HttpResponse(500, CardJson) }

\* outcomes of a call: a value returned, or an exception raised
Message(prefix, detail) == [prefix |-> prefix, detail |-> detail]
Returned(v) == [kind |-> "returned", msg |-> Message("", <<>>), value |-> v]
Raised(kind, prefix, detail) ==
    [kind |-> kind, msg |-> Message(prefix, detail), value |-> PyObj("none", <<>>, <<>>)]

\* response.json() of a text that is not JSON, raised inside the try block
RaiseDecodeError(e) ==
    IF e.decode_error_is_request_exception
    THEN Raised("AccessGridError", "Request failed: ", <<<<"w", "Expecting value">>>>)
    ELSE Raised("ValueError", "", <<<<"w", "Expecting value">>>>)

-----------------------------------------------------------------------------
(* AccessGrid: construction, signing and the request executor. *)

DefaultBaseUrl == <<"https://api.accessgrid.com">>

NoClient == [ok |-> FALSE, account_id |-> PyNone, secret_key |-> PyNone, base_url |-> <<>>]

RECURSIVE rstrip(_)
\* base_url.rstrip('/')
rstrip(url) ==
    IF Len(url) > 0 /\ url[Len(url)] = "/" THEN rstrip(SubSeq(url, 1, Len(url) - 1)) ELSE url

\* InitError without the check of secret_key
InitErrorNoSecretCheck(account_id, secret_key) ==
    IF Falsy(account_id) THEN "Account ID is required" ELSE ""

\* AccessGrid.__init__: the message of the ValueError raised, "" when none is
InitError(account_id, secret_key) ==
    IF Falsy(account_id) THEN "Account ID is required"
    ELSE IF Falsy(secret_key) THEN "Secret Key is required"
    ELSE ""

NewClient(account_id, secret_key, base_url) ==
    [ok |-> TRUE, account_id |-> account_id, secret_key |-> secret_key,
     base_url |-> rstrip(base_url)]

\* _generate_signature: hex(HMAC-SHA256(key = secret_key, msg = base64(payload)))
generate_signature(c, payload) ==
    [alg |-> "hmac-sha256-hex", key |-> c.secret_key,
     msg |-> [enc |-> "base64", text |-> payload]]

\* Payload with an empty dict serialized (only None gives the empty string)
PayloadIfNotNone(data) == IF ~data.isNone THEN json_dumps(data) ELSE <<>>

\* payload = json.dumps(data) if data else "": the text that is signed
Payload(data) == IF Truthy(data) THEN json_dumps(data) ELSE <<>>

\* the request requests.request() puts on the wire
BuildRequest(c, e, method, endpoint, data, params) ==
    [method |-> method,
     url |-> c.base_url \o endpoint,
     headers |-> [acct_id |-> c.account_id,
                  payload_sig |-> generate_signature(c, Payload(data)),
                  content_type |-> "application/json",
                  user_agent |-> <<"accessgrid.py @ v", Version>>],
     has_body |-> Truthy(data),
     body |-> IF Truthy(data) THEN complexjson_dumps(e, data) ELSE <<>>,
     params |-> params]

Is2xx(status) == 200 <= status /\ status < 300

\* the branches of the try block for a status other than 401 and 402
ClassifyBody(e, resp) ==
    IF ~Is2xx(resp.status)
    THEN (IF Len(resp.text) > 0
          THEN LET parsed == json_loads(resp.text) IN
               IF ~parsed.ok THEN RaiseDecodeError(e)
               ELSE IF parsed.val.t # "dict"
               THEN Raised("AttributeError", "", <<<<"w", "object has no attribute 'get'">>>>)
               ELSE Raised("AccessGridError", "API request failed: ",
                           IF HasKey(parsed.val, "message")
                           THEN Str(Get(parsed.val, "message", PyNone))
                           ELSE resp.text)
          ELSE Raised("AccessGridError", "API request failed: ", resp.text))
    ELSE LET parsed == json_loads(resp.text) IN
         IF ~parsed.ok THEN RaiseDecodeError(e) ELSE Returned(parsed.val)

InvalidCredentials == <<<<"w", "Invalid credentials">>>>
InsufficientBalance == <<<<"w", "Insufficient account balance">>>>

\* Classify with status 402 taken for an authentication failure as well
ClassifyAuthOn402(e, resp) ==
    IF resp.transport_error
    THEN Raised("AccessGridError", "Request failed: ", <<<<"w", "connection refused">>>>)
    ELSE IF resp.status = 401 \/ resp.status = 402
    THEN Raised("AuthenticationError", "", InvalidCredentials)
    ELSE ClassifyBody(e, resp)

\* the try block after the request is sent, and its except clause
Classify(e, resp) ==
    IF resp.transport_error
    THEN Raised("AccessGridError", "Request failed: ", <<<<"w", "connection refused">>>>)
    ELSE IF resp.status = 401
    THEN Raised("AuthenticationError", "", InvalidCredentials)
    ELSE IF resp.status = 402
    THEN Raised("AccessGridError", "", InsufficientBalance)
    ELSE ClassifyBody(e, resp)

\* MakeRequest with a failed request sent a second time
MakeRequestRetry(c, e, method, endpoint, data, params, resp) ==
    LET r == BuildRequest(c, e, method, endpoint, data, params)
        o == Classify(e, resp)
    IN [requests |-> IF o.kind = "returned" THEN <<r>> ELSE <<r, r>>, outcome |-> o]

\* _make_request: the requests issued and the outcome, for the response received
MakeRequest(c, e, method, endpoint, data, params, resp) ==
    [requests |-> <<BuildRequest(c, e, method, endpoint, data, params)>>,
     outcome |-> Classify(e, resp)]

get(c, e, endpoint, params, resp) == MakeRequest(c, e, "GET", endpoint, NoneDict, params, resp)
post(c, e, endpoint, data, resp) == MakeRequest(c, e, "POST", endpoint, data, NoneDict, resp)
put(c, e, endpoint, data, resp) == MakeRequest(c, e, "PUT", endpoint, data, NoneDict, resp)

-----------------------------------------------------------------------------
(* Result entities. *)

RECURSIVE CopyFields(_, _, _)
\* self.<attr> = data.get(<key>) for each <<attr, key>> of fields
CopyFields(data, fields, i) ==
    IF i > Len(fields) THEN <<>>
    ELSE <<<<fields[i][1], Get(data, fields[i][2], PyNone)>>>> \o CopyFields(data, fields, i + 1)

AccessCardFields ==
    << <<"id", "id">>, <<"url", "install_url">>, <<"state", "state">>,
       <<"full_name", "full_name">>, <<"expiration_date", "expiration_date">> >>

TemplateFields ==
    << <<"id", "id">>, <<"name", "name">>, <<"platform", "platform">>,
       <<"use_case", "use_case">>, <<"protocol", "protocol">>, <<"created_at", "created_at">>,
       <<"last_published_at", "last_published_at">>,
       <<"issued_keys_count", "issued_keys_count">>,
       <<"active_keys_count", "active_keys_count">>,
       <<"allowed_device_counts", "allowed_device_counts">>,
       <<"support_settings", "support_settings">>, <<"terms_settings", "terms_settings">>,
       <<"style_settings", "style_settings">> >>

\* Entity(client, response) applied to what _make_request gave: data.get of a
\* value that is not a dict raises AttributeError
ConstructFrom(kind, fields, res) ==
    IF res.outcome.kind # "returned" THEN res
    ELSE IF res.outcome.value.t # "dict"
    THEN [res EXCEPT !.outcome = Raised("AttributeError", "", <<<<"w", "object has no attribute 'get'">>>>)]
    ELSE [res EXCEPT !.outcome = Returned(PyObj(kind, CopyFields(res.outcome.value, fields, 1), <<>>))]

\* ConstructFrom with its argument evaluated once
Construct(kind, fields, res) ==
    CHOOSE x \in {ConstructFrom(kind, fields, r) : r \in {res}} : TRUE

AccessCard(res) == Construct("AccessCard", AccessCardFields, res)
Template(res) == Construct("Template", TemplateFields, res)

-----------------------------------------------------------------------------
(* AccessCards and Console. *)

issue(c, e, kwargs, resp) == AccessCard(post(c, e, <<"/v1/key-cards">>, Dict(kwargs), resp))

\* provision with the keyword arguments not passed on
provisionEmptyFields(c, e, kwargs, resp) == issue(c, e, <<>>, resp)

provision(c, e, kwargs, resp) == issue(c, e, kwargs, resp)

update(c, e, card_id, kwargs, resp) ==
    AccessCard(put(c, e, <<"/v1/key-cards/", card_id>>, Dict(kwargs), resp))

manage(c, e, card_id, action, resp) ==
    AccessCard(post(c, e, <<"/v1/key-cards/", card_id, "/", action>>, Dict(<<>>), resp))

suspend(c, e, card_id, resp) == manage(c, e, card_id, "suspend", resp)
resume(c, e, card_id, resp) == manage(c, e, card_id, "resume", resp)
unlink(c, e, card_id, resp) == manage(c, e, card_id, "unlink", resp)

create_template(c, e, kwargs, resp) ==
    Template(post(c, e, <<"/v1/console/card-templates">>, Dict(kwargs), resp))

update_template(c, e, template_id, kwargs, resp) ==
    Template(put(c, e, <<"/v1/console/card-templates/", template_id>>, Dict(kwargs), resp))

read_template(c, e, template_id, resp) ==
    Template(get(c, e, <<"/v1/console/card-templates/", template_id>>, NoneDict, resp))

get_logs(c, e, template_id, kwargs, resp) ==
    get(c, e, <<"/v1/console/card-templates/", template_id, "/logs">>, Dict(kwargs), resp)
-----------------------------------------------------------------------------
(* Inputs. *)

AccountIds == {PyNone, PyStr(""), PyStr("acct_1")}
SecretKeys == {PyNone, PyStr(""), PyStr("s3cret")}
BaseUrls == {DefaultBaseUrl, <<"https://staging.accessgrid.test", "/">>}

Kwargs ==
    { <<>>,
      << <<"full_name", ValStr("Jane Doe")>>, <<"expiration_date", ValStr("2026-01-01")>> >>,
      << <<"site", ValNamedTuple(<<"building", "door">>, <<"HQ", "12">>)>> >> }

CardIds == {"c1", "c2"}
TemplateIds == {"t1"}
Actions == {"suspend", "delete"}

\* the responses tried when the two previous calls are kept
AliasResponses ==
    { TransportFailure, HttpResponse(200, CardJson), HttpResponse(204, <<>>),
      HttpResponse(401, NotJson), HttpResponse(500, MessageJson), HttpResponse(200, ListJson) }

-----------------------------------------------------------------------------
(* State: env, what is installed; client, the AccessGrid object (NoClient    *)
(* before a construction succeeds); ctor, the last call of the constructor; *)
(* sent, the HTTP requests issued so far; last, the last call of a public   *)
(* operation with the requests it issued, the response and its outcome;     *)
(* prev, the call before it where a specification keeps it.                 *)

NoCall ==
    [op |-> "none", id |-> "", action |-> "", kwargs |-> <<>>, requests |-> <<>>,
     response |-> TransportFailure, outcome |-> Returned(PyObj("none", <<>>, <<>>))]

NotConstructed == [called |-> FALSE, account_id |-> PyNone, secret_key |-> PyNone, error |-> ""]

Init ==
    /\ env \in Envs
    /\ client = NoClient
    /\ ctor = NotConstructed
    /\ sent = 0
    /\ last = NoCall
    /\ prev = NoCall

\* AccessGrid(account_id, secret_key, base_url)
New ==
    /\ ~client.ok
    /\ \E a \in AccountIds, s \in SecretKeys, b \in BaseUrls :
        LET err == InitError(a, s) IN
        /\ ctor' = [called |-> TRUE, account_id |-> a, secret_key |-> s, error |-> err]
        /\ client' = IF err = "" THEN NewClient(a, s, b) ELSE client
    /\ UNCHANGED <<env, sent, last, prev>>

\* one call of a public operation: res is what the operation did for response resp
Call(op, id, action, kwargs, resp, res, keep) ==
    /\ client.ok
    /\ sent < MaxSent
    /\ \E r \in {res} :
        /\ last' = [op |-> op, id |-> id, action |-> action, kwargs |-> kwargs,
                    requests |-> r.requests, response |-> resp, outcome |-> r.outcome]
        /\ sent' = sent + Len(r.requests)
    /\ prev' = IF keep THEN last ELSE NoCall
    /\ UNCHANGED <<env, client, ctor>>

Issue ==
    \E kw \in Kwargs, resp \in Responses :
        Call("issue", "", "", kw, resp, issue(client, env, kw, resp), FALSE)

Provision ==
    \E kw \in Kwargs, resp \in Responses :
        Call("provision", "", "", kw, resp, provision(client, env, kw, resp), FALSE)

Update ==
    \E id \in CardIds, kw \in Kwargs, resp \in Responses :
        Call("update", id, "", kw, resp, update(client, env, id, kw, resp), FALSE)

Manage ==
    \E id \in CardIds, a \in Actions, resp \in Responses :
        Call("manage", id, a, <<>>, resp, manage(client, env, id, a, resp), FALSE)

Suspend ==
    \E id \in CardIds, resp \in Responses :
        Call("suspend", id, "", <<>>, resp, suspend(client, env, id, resp), FALSE)

Resume ==
    \E id \in CardIds, resp \in Responses :
        Call("resume", id, "", <<>>, resp, resume(client, env, id, resp), FALSE)

Unlink ==
    \E id \in CardIds, resp \in Responses :
        Call("unlink", id, "", <<>>, resp, unlink(client, env, id, resp), FALSE)

CreateTemplate ==
    \E kw \in Kwargs, resp \in Responses :
        Call("create_template", "", "", kw, resp, create_template(client, env, kw, resp), FALSE)

UpdateTemplate ==
    \E id \in TemplateIds, kw \in Kwargs, resp \in Responses :
        Call("update_template", id, "", kw, resp, update_template(client, env, id, kw, resp), FALSE)

ReadTemplate ==
    \E id \in TemplateIds, resp \in Responses :
        Call("read_template", id, "", <<>>, resp, read_template(client, env, id, resp), FALSE)

GetLogs ==
    \E id \in TemplateIds, kw \in Kwargs, resp \in Responses :
        Call("get_logs", id, "", kw, resp, get_logs(client, env, id, kw, resp), FALSE)

Next ==
    \/ New
    \/ Issue
    \/ Provision
    \/ Update
    \/ Manage
    \/ Suspend
    \/ Resume
    \/ Unlink
    \/ CreateTemplate
    \/ UpdateTemplate
    \/ ReadTemplate
    \/ GetLogs

Spec == Init /\ [][Next]_vars

\* issue and provision alone, the call before the last one kept
IssueKept ==
    \E kw \in Kwargs, resp \in AliasResponses :
        Call("issue", "", "", kw, resp, issue(client, env, kw, resp), TRUE)

ProvisionKept ==
    \E kw \in Kwargs, resp \in AliasResponses :
        Call("provision", "", "", kw, resp, provision(client, env, kw, resp), TRUE)

NextAlias ==
    \/ New
    \/ IssueKept
    \/ ProvisionKept

SpecAlias == Init /\ [][NextAlias]_vars
-----------------------------------------------------------------------------
(* Properties. *)

Completed == last.op # "none"
Typed == {"AuthenticationError", "AccessGridError"}
Failure(resp) == resp.transport_error \/ ~Is2xx(resp.status)
SignedText(req) == req.headers.payload_sig.msg.text

C2_MessageFromBodyOrRawText ==
    (Completed /\ ~last.response.transport_error /\ ~Is2xx(last.response.status)
        /\ last.response.status \notin {401, 402})
    => LET parsed == json_loads(last.response.text) IN
       /\ last.outcome.kind = "AccessGridError"
       /\ last.outcome.msg.detail =
            IF parsed.ok /\ parsed.val.t = "dict" /\ HasKey(parsed.val, "message")
            THEN Str(Get(parsed.val, "message", PyNone))
            ELSE last.response.text

\* C3 as stated: every call ends with a constructed entity (or the parsed body,
\* for get_logs) returned, or with AuthenticationError or AccessGridError raised, and
\* a transport failure always raises AccessGridError.
C3_EntityOrTypedError ==
    Completed =>
        /\ last.outcome.kind \in Typed \cup {"returned"}
        /\ last.outcome.kind = "returned" =>
               last.outcome.value.t \in (IF last.op \in {"create_template", "update_template", "read_template"}
                                         THEN {"Template"}
                                         ELSE IF last.op = "get_logs" THEN {"dict", "list", "scalar"}
                                         ELSE {"AccessCard"})
        /\ last.response.transport_error => last.outcome.kind = "AccessGridError"

\* C4: every call of a public operation issues exactly one HTTP request, also
\* when the response is a failure, and a failure is raised to the caller of that
\* call.
C4_OneRequestPerCall ==
    [][(client.ok /\ client' = client)
        => /\ sent' = sent + 1
           /\ Len(last'.requests) = 1
           /\ Failure(last'.response) => last'.outcome.kind # "returned"]_vars

C4_Witness ==
    /\ sent = 2
    /\ last.op = "issue"
    /\ last.response = HttpResponse(401, NotJson)
    /\ last.outcome.kind = "AuthenticationError"

\* C5 as stated: manage with an action outside {suspend, resume, unlink} issues
\* no HTTP request.
C5_UnknownActionNotSent ==
    (last.op = "manage" /\ last.action \notin {"suspend", "resume", "unlink"})
        => Len(last.requests) = 0

\* C6: a constructor call with a missing or empty account id or secret key
\* raises, leaves no client, and no HTTP request follows from it.
C6_ConstructionValidated ==
    (ctor.called /\ (Falsy(ctor.account_id) \/ Falsy(ctor.secret_key)))
        => /\ ctor.error # ""
           /\ client = NoClient
           /\ sent = 0
           /\ last = NoCall

C6_Witness ==
    /\ ctor.called
    /\ ctor.account_id = PyStr("acct_1")
    /\ ctor.secret_key = PyStr("")
    /\ ctor.error = "Secret Key is required"
    /\ client = NoClient

\* C7 as stated: for every request sent with a body, the text whose signature is
\* in X-PAYLOAD-SIG is the body text transmitted.
C7_SignedTextIsSentText ==
    \A i \in 1..Len(last.requests) :
        last.requests[i].has_body => SignedText(last.requests[i]) = last.requests[i].body

\* C8: an issue call and a provision call with the same fields, on the same
\* client and answered alike, issue the same request (POST /v1/key-cards, same
\* body and headers) and end with the same entity or the same error.
C8_ProvisionIsIssue ==
    (/\ {prev.op, last.op} = {"issue", "provision"}
     /\ prev.kwargs = last.kwargs
     /\ prev.response = last.response)
    => /\ prev.requests = last.requests
       /\ prev.outcome = last.outcome
       /\ Len(last.requests) = 1
       /\ last.requests[1].method = "POST"
       /\ last.requests[1].url = client.base_url \o <<"/v1/key-cards">>

C8_Witness ==
    /\ prev.op = "issue" /\ last.op = "provision"
    /\ Len(last.kwargs) = 2 /\ prev.kwargs = last.kwargs
    /\ prev.response = HttpResponse(200, CardJson) /\ last.response = prev.response
    /\ last.outcome.kind = "returned" /\ last.outcome.value.t = "AccessCard"

\* C9 as stated: a response with a status in [200,300) and an empty body makes
\* the call return normally.
C9_Empty2xxReturns ==
    (Completed /\ ~last.response.transport_error /\ Is2xx(last.response.status)
        /\ last.response.text = <<>>)
    => last.outcome.kind = "returned"

\* C10: suspend, resume and unlink each POST to /v1/key-cards/{id}/{action} with
\* their own action string and no body; and every request without a body (these,
\* every GET, every POST or PUT with no fields) signs the empty string.
C10_ActionPathAndEmptySignedText ==
    Completed =>
        /\ last.op \in {"suspend", "resume", "unlink"} =>
               /\ Len(last.requests) = 1
               /\ last.requests[1].method = "POST"
               /\ last.requests[1].url = client.base_url \o <<"/v1/key-cards/", last.id, "/", last.op>>
               /\ ~last.requests[1].has_body /\ last.requests[1].body = <<>>
        /\ \A i \in 1..Len(last.requests) :
               /\ (last.requests[i].method = "GET" \/ last.op = "manage"
                     \/ (last.op # "get_logs" /\ last.kwargs = <<>>))
                      => ~last.requests[i].has_body
               /\ ~last.requests[i].has_body
                      => /\ SignedText(last.requests[i]) = <<>>
                         /\ last.requests[i].body = <<>>

C10_Witness ==
    /\ last.op = "unlink" /\ last.id = "c2"
    /\ last.requests[1].url = <<"https://staging.accessgrid.test", "/v1/key-cards/", "c2", "/", "unlink">>
    /\ SignedText(last.requests[1]) = <<>>

====
